---- MODULE Spec2Model ----
(***************************************************************************)
(* Model of the cult.fit booking bot (src/main.py): the API client         *)
(* (get_available_classes, find_target_class, book_class) and the polling  *)
(* loop of main().  The HTTP server, the network and the process           *)
(* environment are the model's inputs.                                     *)
(***************************************************************************)
EXTENDS Integers, Sequences, FiniteSets, TLC

(***************************************************************************)
(* Bounds of the model and constants of the program.                       *)
(***************************************************************************)
\* most sleeps (retries) the environment forces in one run
MaxSleeps == 2
\* most class records in one schedule response
MaxClasses == 2

\* main.py:174  "advance == 4"
ADVANCE_WINDOW == 4
\* main.py:176 and main.py:198  time.sleep(180)
SLEEP_SECONDS == 180
\* main.py:65 and main.py:128  status_code 200
HTTP_OK == 200

(***************************************************************************)
(* Python values.  A str is a TLA+ string, except the date strings, which  *)
(* are sequences of one-character strings so that formatting is modelled.  *)
(* os.getenv gives None for an unset name; Unset stands for it.  A dict    *)
(* key that is missing has the value Absent.  An optional dict is a        *)
(* sequence of length 0 (None) or 1.                                       *)
(***************************************************************************)
Unset == "<None>"
Absent == "<absent>"
None == <<>>
Some(r) == <<r>>

\* "is not None" in the place of truthiness: the empty string passes
TruthyNotNone(s) == s # Unset

\* Python truthiness of an os.getenv result: None and "" are falsy
Truthy(s) == s # Unset /\ s # ""

\* what get_available_classes hands back (or raises)
AUTH_ERROR == [tag |-> "AUTH_ERROR", val |-> <<>>]
PyNone == [tag |-> "None", val |-> <<>>]
PyList(l) == [tag |-> "list", val |-> l]
Raised(exc) == [tag |-> "raise", val |-> <<exc>>]

(***************************************************************************)
(* datetime: the clock counts seconds from 2024-01-01 00:00:00.            *)
(***************************************************************************)
DaysInMonth == <<31, 29, 31, 30, 31, 30, 31, 31, 30, 31, 30, 31>>
Digits == <<"0", "1", "2", "3", "4", "5", "6", "7", "8", "9">>
Pad2(n) == <<Digits[(n \div 10) + 1], Digits[(n % 10) + 1]>>

RECURSIVE MonthDay(_, _)
\* month and day of the month of the day-of-year d (0-based), from month m on
MonthDay(m, d) ==
    IF d < DaysInMonth[m] THEN <<m, d + 1>> ELSE MonthDay(m + 1, d - DaysInMonth[m])

\* "%Y-%m-%d" of a date of 2024: zero padded month and day
IsoDate(m, d) == <<"2", "0", "2", "4", "-">> \o Pad2(m) \o <<"-">> \o Pad2(d)

\* (datetime + timedelta(days)).strftime("%Y-%m-%d")
StrfDate(secs, days) ==
    LET md == MonthDay(1, (secs \div 86400) + days)
    IN  IsoDate(md[1], md[2])

(***************************************************************************)
(* The process environment (vatsal.env) of the modelled runs.              *)
(***************************************************************************)
CredentialValues == {Unset, "", "secret"}
CenterIds == {"center-7"}
PreferredTimes == {"19:00:00"}
WorkoutNames == {"YOGA"}
Advances == {3, ADVANCE_WINDOW}
\* 2024-06-28 23:58:00: the first sleep of a run crosses midnight
StartTimes == {179 * 86400 + 86280}

(***************************************************************************)
(* What the server can answer.                                             *)
(***************************************************************************)
Cls(id, state, seats, time, name) ==
    [id |-> id, state |-> state, availableSeats |-> seats,
     startTime |-> time, workoutName |-> name]

\* three records that qualify for ("19:00:00", "YOGA"), one of them without
\* an id, and one that has no seat left
ClassRecords ==
    { Cls("c1", "AVAILABLE", 2, "19:00:00", "YOGA"),
      Cls("c2", "AVAILABLE", 1, "19:00:00", "YOGA"),
      Cls(Absent, "AVAILABLE", 1, "19:00:00", "YOGA"),
      Cls("c3", "AVAILABLE", 0, "19:00:00", "YOGA") }

SeqsUpTo(S, n) == UNION {[1..k -> S] : k \in 0..n}
ClassLists == SeqsUpTo(ClassRecords, MaxClasses)

\* a time-slot group; has = FALSE: the "classes" key is missing
Slot(l) == [has |-> TRUE, classes |-> l]
SlotNoClasses == [has |-> FALSE, classes |-> <<>>]

\* the classByTimeList values that hold the class list l: one group, or two
\* groups cut at any place, or a group without "classes" after them
SlotListsOf(l) ==
    {<<Slot(l)>>, <<Slot(l), SlotNoClasses>>}
    \cup {<<Slot(SubSeq(l, 1, k)), Slot(SubSeq(l, k + 1, Len(l)))>> : k \in 0..Len(l)}

SlotLists == {<<>>} \cup UNION {SlotListsOf(l) : l \in ClassLists}

\* a day schedule; has = FALSE: the "classByTimeList" key is missing
Day(id, slots) == [id |-> id, has |-> TRUE, classByTimeList |-> slots]
DayNoTimes(id) == [id |-> id, has |-> FALSE, classByTimeList |-> <<>>]

DateIds == {IsoDate(7, 1), IsoDate(7, 2)}
Days == {Day(id, s) : id \in DateIds, s \in SlotLists} \cup {DayNoTimes(id) : id \in DateIds}

\* the classByDateList values: no day, one day, or a day behind an empty one
DayLists ==
    {<<>>} \cup {<<d>> : d \in Days}
    \cup {<<Day(id, <<>>), d>> : id \in DateIds, d \in Days}

\* a response body: parse says what response.json() does with it
JsonBody(days) == [parse |-> "ok", has |-> TRUE, classByDateList |-> days]
JsonNoDates == [parse |-> "ok", has |-> FALSE, classByDateList |-> <<>>]
\* not JSON; response.json() raises requests' JSONDecodeError, a
\* RequestException from requests 2.27 on and a plain ValueError before
NotJson(exc) == [parse |-> exc, has |-> FALSE, classByDateList |-> <<>>]
JsonErrors == {"RequestException", "ValueError"}

Bodies == {JsonBody(d) : d \in DayLists} \cup {JsonNoDates} \cup {NotJson(e) : e \in JsonErrors}

\* an HTTP exchange: the request raised (timeout, connection error) or a
\* response came back
NetworkErrors == {"Timeout", "ConnectionError"}
Failed(exc) == [kind |-> exc, status_code |-> 0, body |-> JsonNoDates]
Http(status, body) == [kind |-> "response", status_code |-> status, body |-> body]

GetStatuses == {HTTP_OK, 401, 403, 404, 500}
GetResponses ==
    {Failed(e) : e \in NetworkErrors}
    \cup {Http(HTTP_OK, b) : b \in Bodies}
    \cup {Http(s, b) : s \in GetStatuses \ {HTTP_OK}, b \in {JsonNoDates, NotJson("ValueError")}}

PostStatuses == {HTTP_OK, 400, 409, 500}
PostResponses ==
    {Failed(e) : e \in NetworkErrors} \cup {Http(s, JsonNoDates) : s \in PostStatuses}

(***************************************************************************)
(* CultFitAPIClient                                                        *)
(***************************************************************************)
RECURSIVE Flatten(_, _)
\* main.py:78-85: class_list.extend(time_slot.get("classes",)) slot by slot;
\* extend(None) raises TypeError
Flatten(slots, class_list) ==
    IF slots = <<>> THEN PyList(class_list)
    ELSE IF ~Head(slots).has THEN Raised("TypeError")
    ELSE Flatten(Tail(slots), class_list \o Head(slots).classes)

RECURSIVE FindDay(_, _)
\* main.py:76-89: the first day schedule whose id is the date, flattened;
\* None when the loop ends without one
FindDay(days, date) ==
    IF days = <<>> THEN PyNone
    ELSE IF Head(days).id = date
         THEN IF ~Head(days).has THEN Raised("TypeError")
              ELSE Flatten(Head(days).classByTimeList, <<>>)
         ELSE FindDay(Tail(days), date)

\* get_available_classes telling only 401 and 403 apart as authentication
\* failures: raise_for_status then raises for the other codes
get_available_classes_401_403(resp, date) ==
    IF resp.kind # "response" THEN PyNone
    ELSE IF resp.status_code \in {401, 403} THEN AUTH_ERROR
    ELSE IF resp.status_code # HTTP_OK THEN PyNone
    ELSE IF resp.body.parse = "RequestException" THEN PyNone
    ELSE IF resp.body.parse = "ValueError" THEN Raised("ValueError")
    ELSE IF ~resp.body.has THEN Raised("TypeError")
    ELSE FindDay(resp.body.classByDateList, date)

\* main.py:43-97
get_available_classes(resp, date) ==
    IF resp.kind # "response" THEN PyNone
    ELSE IF resp.status_code # HTTP_OK THEN AUTH_ERROR
    ELSE IF resp.body.parse = "RequestException" THEN PyNone
    ELSE IF resp.body.parse = "ValueError" THEN Raised("ValueError")
    ELSE IF ~resp.body.has THEN Raised("TypeError")
    ELSE FindDay(resp.body.classByDateList, date)

\* the four tests with "availableSeats >= 0" in the place of "> 0"
QualifiesSeatsNotNegative(cls, time_str, name) ==
    /\ cls.state = "AVAILABLE"
    /\ cls.availableSeats >= 0
    /\ cls.startTime = time_str
    /\ cls.workoutName = name

\* main.py:105-112
Qualifies(cls, time_str, name) ==
    /\ cls.state = "AVAILABLE"
    /\ cls.availableSeats > 0
    /\ cls.startTime = time_str
    /\ cls.workoutName = name

RECURSIVE find_target_class_any_seats(_, _, _)
\* find_target_class without the has_seats test
find_target_class_any_seats(classes, time_str, name) ==
    IF classes = <<>> THEN None
    ELSE IF /\ Head(classes).state = "AVAILABLE"
            /\ Head(classes).startTime = time_str
            /\ Head(classes).workoutName = name
         THEN Some(Head(classes))
    ELSE find_target_class_any_seats(Tail(classes), time_str, name)

RECURSIVE find_target_class(_, _, _)
\* main.py:99-117
find_target_class(classes, time_str, name) ==
    IF classes = <<>> THEN None
    ELSE IF Qualifies(Head(classes), time_str, name) THEN Some(Head(classes))
    ELSE find_target_class(Tail(classes), time_str, name)

\* book_class taking every 2xx status for a success
book_class_any_2xx(resp) ==
    resp.kind = "response" /\ resp.status_code >= 200 /\ resp.status_code < 300

\* main.py:119-137
book_class(resp) == resp.kind = "response" /\ resp.status_code = HTTP_OK

(***************************************************************************)
(* main(): the state of one run.                                           *)
(***************************************************************************)
VARIABLES
    pc,                 \* where main() is: start, fetch, branch, book, done, crashed
    api_key, at_token, st_token, center_id, preferred_time, workout_name, advance,
    now,                \* the wall clock, in seconds
    date_str,           \* the target date, once computed
    available_classes,  \* what the last get_available_classes returned
    target_class,       \* what the last find_target_class returned
    success,            \* what the last book_class returned
    fetched,            \* how the last GET ended: its kind and status code
    outcome,            \* how the run ended
    log,                \* the requests, searches and sleeps of the run, in order
    results             \* what each GET and each POST of the run came to, in order

config == <<api_key, at_token, st_token, center_id, preferred_time, workout_name, advance>>
vars == <<pc, config, now, date_str, available_classes, target_class, success,
          fetched, outcome, log, results>>

Event(ev, center, date, id, secs) ==
    [ev |-> ev, center |-> center, date |-> date, id |-> id, secs |-> secs]
GetEvent(center, date) == Event("GET", center, date, "", 0)
SearchEvent == Event("search", "", <<>>, "", 0)
PostEvent(id) == Event("POST", "", <<>>, id, 0)
SleepEvent(secs) == Event("sleep", "", <<>>, "", secs)

Count(ev) == Cardinality({i \in DOMAIN log : log[i].ev = ev})
NumSleeps == Count("sleep")

\* main.py:146-152: the environment has been read
Init ==
    /\ pc = "start"
    /\ api_key \in CredentialValues
    /\ at_token \in CredentialValues
    /\ st_token \in CredentialValues
    /\ center_id \in CenterIds
    /\ preferred_time \in PreferredTimes
    /\ workout_name \in WorkoutNames
    /\ advance \in Advances
    /\ now \in StartTimes
    /\ date_str = <<>>
    /\ available_classes = PyNone
    /\ target_class = None
    /\ success = FALSE
    /\ fetched = [kind |-> "", status_code |-> 0]
    /\ outcome = "running"
    /\ log = <<>>
    /\ results = <<>>

\* main.py:28-30 and 154-162
Startup ==
    /\ pc = "start"
    /\ IF Truthy(api_key) /\ Truthy(at_token) /\ Truthy(st_token)
       THEN /\ date_str' = StrfDate(now, advance)
            /\ pc' = "fetch"
            /\ UNCHANGED outcome
       ELSE /\ pc' = "done"
            /\ outcome' = "init_failed"
            /\ UNCHANGED date_str
    /\ UNCHANGED <<config, results, now, available_classes, target_class, success, fetched, log>>

\* the fetch with the target date worked out anew from the clock
FetchClassesDateFromNow(resp) ==
    /\ pc = "fetch"
    /\ LET r == get_available_classes(resp, StrfDate(now, advance)) IN
       /\ (r.tag = "None" /\ advance = ADVANCE_WINDOW) => NumSleeps < MaxSleeps
       /\ IF r.tag = "raise"
          THEN /\ pc' = "crashed"
               /\ outcome' = "uncaught_exception"
               /\ UNCHANGED available_classes
          ELSE /\ pc' = "branch"
               /\ available_classes' = r
               /\ UNCHANGED outcome
       /\ results' = Append(results, r.tag)
    /\ fetched' = [kind |-> resp.kind, status_code |-> resp.status_code]
    /\ log' = Append(log, GetEvent(center_id, StrfDate(now, advance)))
    /\ UNCHANGED <<config, now, date_str, target_class, success>>

\* main.py:166: one GET; a failure that get_available_classes lets through
\* ends the process
FetchClasses(resp) ==
    /\ pc = "fetch"
    /\ LET r == get_available_classes(resp, date_str) IN
       /\ (r.tag = "None" /\ advance = ADVANCE_WINDOW) => NumSleeps < MaxSleeps
       /\ IF r.tag = "raise"
          THEN /\ pc' = "crashed"
               /\ outcome' = "uncaught_exception"
               /\ UNCHANGED available_classes
          ELSE /\ pc' = "branch"
               /\ available_classes' = r
               /\ UNCHANGED outcome
    /\ fetched' = [kind |-> resp.kind, status_code |-> resp.status_code]
    /\ results' = Append(results, get_available_classes(resp, date_str).tag)
    /\ log' = Append(log, GetEvent(center_id, date_str))
    /\ UNCHANGED <<config, now, date_str, target_class, success>>

\* main.py:169-171
Case1AuthError ==
    /\ pc = "branch"
    /\ available_classes.tag = "AUTH_ERROR"
    /\ pc' = "done"
    /\ outcome' = "auth_failure"
    /\ UNCHANGED <<config, results, now, date_str, available_classes, target_class, success,
                   fetched, log>>

\* Case 2 with "continue" but no time.sleep
Case2NoSleep ==
    /\ pc = "branch"
    /\ available_classes.tag # "AUTH_ERROR"
    /\ available_classes.tag = "None" /\ advance = ADVANCE_WINDOW
    /\ pc' = "fetch"
    /\ UNCHANGED <<config, results, now, date_str, available_classes, target_class, success,
                   fetched, outcome, log>>

\* main.py:174-177
Case2NotYetAvailable ==
    /\ pc = "branch"
    /\ available_classes.tag # "AUTH_ERROR"
    /\ available_classes.tag = "None" /\ advance = ADVANCE_WINDOW
    /\ now' = now + SLEEP_SECONDS
    /\ log' = Append(log, SleepEvent(SLEEP_SECONDS))
    /\ pc' = "fetch"
    /\ UNCHANGED <<config, results, date_str, available_classes, target_class, success,
                   fetched, outcome>>

\* "available_classes is None" in the place of "not available_classes"
FalsyNoneOnly(v) == v.tag = "None"

\* Python's "not available_classes": None and the empty list
Falsy(v) == v.tag = "None" \/ (v.tag = "list" /\ v.val = <<>>)

\* main.py:180-182
Case3NoClasses ==
    /\ pc = "branch"
    /\ available_classes.tag # "AUTH_ERROR"
    /\ ~(available_classes.tag = "None" /\ advance = ADVANCE_WINDOW)
    /\ Falsy(available_classes)
    /\ pc' = "done"
    /\ outcome' = "no_data"
    /\ UNCHANGED <<config, results, now, date_str, available_classes, target_class, success,
                   fetched, log>>

\* the test of main.py:187 without its "'id' in target_class" part
HasIdAny(t) == t # None

\* main.py:187: target_class and 'id' in target_class
HasId(t) == t # None /\ t[1].id # Absent

\* main.py:185-187 and 192-194
Case4FindTarget ==
    /\ pc = "branch"
    /\ available_classes.tag # "AUTH_ERROR"
    /\ ~(available_classes.tag = "None" /\ advance = ADVANCE_WINDOW)
    /\ ~Falsy(available_classes)
    /\ LET t == find_target_class(available_classes.val, preferred_time, workout_name) IN
       /\ target_class' = t
       /\ IF HasId(t)
          THEN pc' = "book" /\ UNCHANGED outcome
          ELSE pc' = "done" /\ outcome' = "no_match"
    /\ log' = Append(log, SearchEvent)
    /\ UNCHANGED <<config, results, now, date_str, available_classes, success, fetched>>

\* book_class called again after a failure, with no new fetch and search
BookClassRepost(resp) ==
    /\ pc = "book"
    /\ LET ok == book_class(resp) IN
       /\ ~ok => NumSleeps < MaxSleeps
       /\ success' = ok
       /\ results' = Append(results, IF ok THEN "ok" ELSE "fail")
       /\ IF ok
          THEN /\ pc' = "done"
               /\ outcome' = "success"
               /\ log' = Append(log, PostEvent(target_class[1].id))
               /\ UNCHANGED now
          ELSE /\ pc' = "book"
               /\ now' = now + SLEEP_SECONDS
               /\ log' = log \o <<PostEvent(target_class[1].id), SleepEvent(SLEEP_SECONDS)>>
               /\ UNCHANGED outcome
    /\ UNCHANGED <<config, date_str, available_classes, target_class, fetched>>

\* the loop without the "break" after a successful booking
BookClassNoBreak(resp) ==
    /\ pc = "book"
    /\ NumSleeps < MaxSleeps
    /\ success' = book_class(resp)
    /\ results' = Append(results, IF book_class(resp) THEN "ok" ELSE "fail")
    /\ pc' = "fetch"
    /\ now' = now + SLEEP_SECONDS
    /\ log' = log \o <<PostEvent(target_class[1].id), SleepEvent(SLEEP_SECONDS)>>
    /\ UNCHANGED <<config, date_str, available_classes, target_class, fetched, outcome>>

\* the POST made for the first class of the list, not for the matched one
BookClassFirstId(resp) ==
    /\ pc = "book"
    /\ LET ok == book_class(resp)
           id == available_classes.val[1].id IN
       /\ ~ok => NumSleeps < MaxSleeps
       /\ success' = ok
       /\ results' = Append(results, IF ok THEN "ok" ELSE "fail")
       /\ IF ok
          THEN /\ pc' = "done"
               /\ outcome' = "success"
               /\ log' = Append(log, PostEvent(id))
               /\ UNCHANGED now
          ELSE /\ pc' = "fetch"
               /\ now' = now + SLEEP_SECONDS
               /\ log' = log \o <<PostEvent(id), SleepEvent(SLEEP_SECONDS)>>
               /\ UNCHANGED outcome
    /\ UNCHANGED <<config, date_str, available_classes, target_class, fetched>>

\* the loop without the time.sleep after a failed booking
BookClassNoSleep(resp) ==
    /\ pc = "book"
    /\ LET ok == book_class(resp) IN
       /\ ~ok => Count("GET") <= MaxSleeps
       /\ success' = ok
       /\ results' = Append(results, IF ok THEN "ok" ELSE "fail")
       /\ IF ok
          THEN pc' = "done" /\ outcome' = "success"
          ELSE pc' = "fetch" /\ UNCHANGED outcome
    /\ log' = Append(log, PostEvent(target_class[1].id))
    /\ UNCHANGED <<config, now, date_str, available_classes, target_class, fetched>>

\* main.py:188-191 and 197-198: one POST, then the end or a sleep
BookClass(resp) ==
    /\ pc = "book"
    /\ LET ok == book_class(resp) IN
       /\ ~ok => NumSleeps < MaxSleeps
       /\ success' = ok
       /\ results' = Append(results, IF ok THEN "ok" ELSE "fail")
       /\ IF ok
          THEN /\ pc' = "done"
               /\ outcome' = "success"
               /\ log' = Append(log, PostEvent(target_class[1].id))
               /\ UNCHANGED now
          ELSE /\ pc' = "fetch"
               /\ now' = now + SLEEP_SECONDS
               /\ log' = log \o <<PostEvent(target_class[1].id), SleepEvent(SLEEP_SECONDS)>>
               /\ UNCHANGED outcome
    /\ UNCHANGED <<config, date_str, available_classes, target_class, fetched>>

Fetch == \E resp \in GetResponses : FetchClasses(resp)
Book == \E resp \in PostResponses : BookClass(resp)

Next ==
    \/ Startup
    \/ Fetch
    \/ Case1AuthError
    \/ Case2NotYetAvailable
    \/ Case3NoClasses
    \/ Case4FindTarget
    \/ Book

Spec == Init /\ [][Next]_vars

\* the loop keeps running, the server does not answer "no such date" for
\* ever and a booking does not fail for ever
FetchSettles ==
    \E resp \in GetResponses :
        get_available_classes(resp, date_str).tag # "None" /\ FetchClasses(resp)
BookSucceeds == \E resp \in PostResponses : book_class(resp) /\ BookClass(resp)
LiveSpec == Spec /\ WF_vars(Next) /\ SF_vars(FetchSettles) /\ SF_vars(BookSucceeds)

(***************************************************************************)
(* The three client functions on their own: each run is one call.  The     *)
(* arguments are in the variables the loop hands them over in              *)
(* (available_classes, preferred_time, workout_name, date_str); fetched    *)
(* holds the whole HTTP exchange the call meets; the value returned is in  *)
(* target_class, available_classes (a raised exception included) or        *)
(* success.                                                                *)
(***************************************************************************)
\* class records: every combination of the four fields the matcher reads
FnClassRecords ==
    {Cls(id, st, n, t, w) : id \in {"c1", "c2"}, st \in {"AVAILABLE", "BOOKED"},
                            n \in {0, 1}, t \in {"19:00:00", "07:00:00"},
                            w \in {"YOGA", "BOXING"}}
FnClassLists == SeqsUpTo(FnClassRecords, MaxClasses)

\* "2024-07-1": the first of July without the zero padding
UnpaddedDate == <<"2", "0", "2", "4", "-", "0", "7", "-", "1">>
FnDateIds == DateIds \cup {UnpaddedDate}

\* the day lists of the loop's model, days with the unpadded id, two days
\* that both hold a class, and a day of three groups
FnDayLists ==
    DayLists
    \cup {<<Day(UnpaddedDate, sl)>> : sl \in SlotLists}
    \cup {<<Day(i, <<Slot(<<a>>)>>), Day(j, <<Slot(<<b>>)>>)>> :
              i \in FnDateIds, j \in FnDateIds, a \in ClassRecords, b \in ClassRecords}
    \cup {<<Day(i, <<Slot(<<a>>), Slot(<<b>>), Slot(<<c>>)>>)>> :
              i \in DateIds, a \in ClassRecords, b \in ClassRecords, c \in ClassRecords}

FnBodies ==
    {JsonBody(d) : d \in FnDayLists} \cup {JsonNoDates} \cup {NotJson(e) : e \in JsonErrors}
FnGetResponses ==
    {Failed(e) : e \in NetworkErrors} \cup {Http(st, b) : st \in GetStatuses, b \in FnBodies}
FnPostResponses ==
    {Failed(e) : e \in NetworkErrors}
    \cup {Http(st, b) : st \in {HTTP_OK, 201, 204, 302, 400, 401, 409, 500},
                        b \in {JsonNoDates, NotJson("ValueError")}}

FnInit ==
    /\ api_key = "secret" /\ at_token = "secret" /\ st_token = "secret"
    /\ center_id \in CenterIds
    /\ advance = ADVANCE_WINDOW
    /\ now \in StartTimes
    /\ preferred_time \in PreferredTimes
    /\ workout_name \in WorkoutNames
    /\ target_class = None
    /\ success = FALSE
    /\ outcome = "running"
    /\ log = <<>>
    /\ results = <<>>
    /\ \/ /\ pc = "call find_target_class"
          /\ available_classes \in {PyList(l) : l \in FnClassLists}
          /\ fetched = [kind |-> "", status_code |-> 0]
          /\ date_str = <<>>
       \/ /\ pc = "call get_available_classes"
          /\ fetched \in FnGetResponses
          /\ date_str \in DateIds
          /\ available_classes = PyNone
       \/ /\ pc = "call book_class"
          /\ fetched \in FnPostResponses
          /\ date_str = <<>>
          /\ available_classes = PyNone

CallFindTargetClass ==
    /\ pc = "call find_target_class"
    /\ target_class' = find_target_class(available_classes.val, preferred_time, workout_name)
    /\ pc' = "find_target_class returned"
    /\ UNCHANGED <<config, results, now, date_str, available_classes, success, fetched,
                   outcome, log>>

CallGetAvailableClasses ==
    /\ pc = "call get_available_classes"
    /\ available_classes' = get_available_classes(fetched, date_str)
    /\ pc' = "get_available_classes returned"
    /\ UNCHANGED <<config, results, now, date_str, target_class, success, fetched,
                   outcome, log>>

CallBookClass ==
    /\ pc = "call book_class"
    /\ success' = book_class(fetched)
    /\ pc' = "book_class returned"
    /\ UNCHANGED <<config, results, now, date_str, available_classes, target_class,
                   fetched, outcome, log>>

FnNext ==
    \/ CallFindTargetClass
    \/ CallGetAvailableClasses
    \/ CallBookClass

FnSpec == FnInit /\ [][FnNext]_vars

(***************************************************************************)
(* Properties                                                              *)
(***************************************************************************)
Last(s) == s[Len(s)]
Running == pc \in {"start", "fetch", "branch", "book"}
NoneQualifies(classes) ==
    \A i \in DOMAIN classes : ~Qualifies(classes[i], preferred_time, workout_name)

\* C1: a fetch that ended in a network failure (the exception branch of
\* get_available_classes) ends the run for every day offset: the GET stays
\* the last thing the run did, no sleep, search, POST or new GET follows it.
C1_NetworkFailureEndsRun ==
    (pc # "start" /\ fetched.kind \in NetworkErrors)
        => (pc \in {"branch", "done"} /\ Last(log).ev = "GET")

\* C2: get_available_classes never lets a failure through to main(): no
\* response, however malformed, ends the process with an uncaught exception.
C2_FetchNeverRaises == pc # "crashed"

\* C3: when the fetch returned None and the offset is 4, the step that
\* follows is one sleep of 180 seconds and nothing else (no search, no POST),
\* and the step after it is a GET for the same center and date.
C3_RetryAfterOneSleep ==
    /\ [][ (pc = "branch" /\ available_classes.tag = "None" /\ advance = 4)
             => /\ pc' = "fetch"
                /\ now' = now + 180
                /\ log' = Append(log, SleepEvent(180))
                /\ target_class' = target_class
                /\ success' = success ]_vars
    /\ [][ (pc = "fetch" /\ Len(log) >= 2 /\ log[Len(log) - 1].ev = "GET")
             => log' = Append(log, log[Len(log) - 1]) ]_vars

C3_Witness ==
    /\ Len(log) >= 3
    /\ advance = 4
    /\ log[Len(log) - 2].ev = "GET"
    /\ log[Len(log) - 1] = SleepEvent(180)
    /\ Last(log) = GetEvent(center_id, date_str)

\* C4: when the fetch returned None under an offset other than 4, or an
\* empty list under any offset, the next step ends the run with the "no
\* data" outcome: no sleep, no search, no POST, no new GET.
C4_NoDataEndsRun ==
    [][ (/\ pc = "branch"
         /\ \/ (available_classes.tag = "None" /\ advance # 4)
            \/ (available_classes.tag = "list" /\ available_classes.val = <<>>))
          => (pc' = "done" /\ outcome' = "no_data" /\ log' = log /\ now' = now) ]_vars

C4_Witness ==
    /\ pc = "done"
    /\ outcome = "no_data"
    /\ advance = 4
    /\ available_classes.tag = "list"
    /\ Last(log).ev = "GET"

\* C5: once a GET was answered with a status other than 200, that GET stays
\* the last thing the run did (no POST, no sleep, no further GET), and the
\* run ends with the authentication failure outcome, whatever the offset.
C5_AuthFailureEndsRun ==
    (fetched.kind = "response" /\ fetched.status_code # 200)
        => /\ Last(log).ev = "GET"
           /\ pc \in {"branch", "done"}
           /\ available_classes.tag = "AUTH_ERROR"
           /\ pc = "done" => outcome = "auth_failure"
           /\ pc = "branch" => ENABLED Case1AuthError /\ ~ENABLED Case2NotYetAvailable

C5_Witness ==
    /\ pc = "done"
    /\ outcome = "auth_failure"
    /\ fetched.status_code = 403
    /\ advance = 4

\* C6: every POST of the run comes right after a GET and a search of its
\* own; a POST that failed is followed by exactly one sleep of 180 seconds
\* and then by a GET, never directly by another POST.
C6_FailedBookingRestartsCycle ==
    \A i \in DOMAIN log :
        log[i].ev = "POST" =>
            /\ i > 2
            /\ log[i - 1].ev = "search"
            /\ log[i - 2].ev = "GET"
            /\ (i = Len(log) /\ ~success) => FALSE
            /\ i < Len(log) => log[i + 1] = SleepEvent(180)
            /\ i + 1 < Len(log) => log[i + 2].ev = "GET"
            /\ (i + 1 = Len(log)) => (pc = "fetch" /\ ~success)

C6_Witness ==
    \E i \in DOMAIN log :
        /\ log[i].ev = "POST"
        /\ i + 4 <= Len(log)
        /\ log[i + 1] = SleepEvent(180)
        /\ log[i + 2].ev = "GET"
        /\ log[i + 3].ev = "search"
        /\ log[i + 4].ev = "POST"

\* C7: after a booking succeeded the run is over with the success outcome
\* and the successful POST is the last thing it did: no GET, sleep or POST
\* follows it, so a run has at most one successful booking.
C7_SuccessEndsRun ==
    success =>
        /\ pc = "done"
        /\ outcome = "success"
        /\ Last(log).ev = "POST"
        /\ \A i \in DOMAIN log : (log[i].ev = "POST" /\ i < Len(log)) => log[i + 1].ev = "sleep"

C7_Witness == success /\ Count("POST") = 2

\* C8: when the fetched list is not empty and none of its records passes
\* the four tests, the next step ends the run with the "no match" outcome:
\* the search is the last thing the run did, no POST, no sleep, no new GET.
C8_NoMatchEndsRun ==
    [][ (/\ pc = "branch"
         /\ available_classes.tag = "list"
         /\ available_classes.val # <<>>
         /\ NoneQualifies(available_classes.val))
          => /\ pc' = "done"
             /\ outcome' = "no_match"
             /\ target_class' = None
             /\ log' = Append(log, SearchEvent)
             /\ now' = now ]_vars

C8_Witness ==
    /\ pc = "done"
    /\ outcome = "no_match"
    /\ available_classes.tag = "list"
    /\ Len(available_classes.val) = 2
    /\ NoneQualifies(available_classes.val)
    /\ Last(log).ev = "search"

\* C9: a step makes at most one POST, and only right after the GET and the
\* search of the same iteration; the id posted is the id of the record the
\* search returned, which is the first qualifying record of the list that
\* GET fetched.
C9_BookingIsForMatchedRecord ==
    [][ (Count("POST")' # Count("POST"))
          => /\ Count("POST")' = Count("POST") + 1
             /\ Len(log) >= 2
             /\ log[Len(log) - 1].ev = "GET"
             /\ Last(log).ev = "search"
             /\ available_classes.tag = "list"
             /\ target_class =
                    find_target_class(available_classes.val, preferred_time, workout_name)
             /\ target_class # None
             /\ \E j \in DOMAIN available_classes.val :
                    available_classes.val[j] = target_class[1]
             /\ log'[Len(log) + 1] = PostEvent(target_class[1].id)
             /\ target_class[1].id # Absent ]_vars

C9_Witness ==
    /\ Count("POST") = 2
    /\ Len(available_classes.val) = 2
    /\ target_class = Some(available_classes.val[2])
    /\ log[3].id # target_class[1].id

\* C10: in a run whose loop keeps running, in which the server does not
\* answer "no such date" for ever and a booking does not fail for ever, the
\* run ends at one of the four terminal conditions of the loop (success,
\* authentication failure, no data, no match) or, before the loop, at the
\* failed initialization.
C10_EventuallyTerminalCondition ==
    <>(/\ pc = "done"
       /\ outcome \in {"success", "auth_failure", "no_data", "no_match", "init_failed"})

\* the run always ends, normally or with the uncaught exception of C2
EventuallyStops == <>(~Running)

\* the four tests of the matcher, written out
PassesAllFour(r) ==
    /\ r.state = "AVAILABLE"
    /\ r.availableSeats > 0
    /\ r.startTime = preferred_time
    /\ r.workoutName = workout_name
QualifyingAt(l) == {i \in DOMAIN l : PassesAllFour(l[i])}

\* the run so far is scenario A: offset 4, the first two fetches came to
\* None, the third to a list
ScenarioA ==
    /\ advance = 4
    /\ Len(results) >= 3
    /\ results[1] = "None" /\ results[2] = "None" /\ results[3] = "list"

\* C11: in scenario A, when the list of the third fetch holds exactly one
\* qualifying class (with an id) the run goes on to the POST; when that POST
\* is answered 200 the run is over with the success outcome and has made
\* exactly three GETs, two sleeps of 180 seconds and one POST, for that
\* class's id; nothing follows the successful POST.
C11_ScenarioA ==
    LET l == available_classes.val
        q == l[CHOOSE i \in QualifyingAt(l) : TRUE]
        polls == <<GetEvent(center_id, date_str), SleepEvent(180),
                   GetEvent(center_id, date_str), SleepEvent(180),
                   GetEvent(center_id, date_str)>>
        one == /\ available_classes.tag = "list"
               /\ Cardinality(QualifyingAt(l)) = 1
               /\ q.id # Absent
    IN  /\ (ScenarioA /\ Len(results) = 3 /\ one)
            => \/ pc = "branch" /\ log = polls
               \/ pc = "book" /\ log = Append(polls, SearchEvent) /\ target_class = Some(q)
        /\ (ScenarioA /\ Len(results) = 4 /\ results[4] = "ok" /\ one)
            => /\ pc = "done" /\ outcome = "success"
               /\ log = polls \o <<SearchEvent, PostEvent(q.id)>>
               /\ Count("GET") = 3 /\ Count("sleep") = 2 /\ Count("POST") = 1
        /\ (ScenarioA /\ Len(results) > 4) => results[4] = "fail"

C11_Witness ==
    /\ pc = "done"
    /\ ScenarioA
    /\ results = <<"None", "None", "list", "ok">>
    /\ fetched.kind = "response"
    /\ Len(available_classes.val) = 2

MinOf(S) == CHOOSE i \in S : \A j \in S : i <= j

\* C12: find_target_class returns the record at the least position of the
\* list that passes all four tests, and None exactly when no position does.
C12_FirstQualifyingRecord ==
    pc = "find_target_class returned" =>
        LET l == available_classes.val
            Q == QualifyingAt(l)
        IN  /\ (target_class = None) <=> (Q = {})
            /\ Q # {} => target_class = Some(l[MinOf(Q)])

C12_Witness ==
    /\ pc = "find_target_class returned"
    /\ Len(available_classes.val) = 2
    /\ ~PassesAllFour(available_classes.val[1])
    /\ available_classes.val[1].availableSeats = 0
    /\ target_class = Some(available_classes.val[2])

\* C13: for a response, get_available_classes returns the AUTH_ERROR signal
\* exactly when the status is not 200, whatever the body is.
C13_AuthErrorIffNot200 ==
    (pc = "get_available_classes returned" /\ fetched.kind = "response")
        => ((available_classes.tag = "AUTH_ERROR") <=> (fetched.status_code # 200))

C13_Witness ==
    /\ pc = "get_available_classes returned"
    /\ fetched.status_code = 500
    /\ fetched.body.has
    /\ Len(fetched.body.classByDateList) = 2
    /\ available_classes.tag = "AUTH_ERROR"

RECURSIVE ConcatClasses(_)
\* the class sequences of the groups, one after the other
ConcatClasses(slots) ==
    IF slots = <<>> THEN <<>> ELSE Head(slots).classes \o ConcatClasses(Tail(slots))

\* the positions of the day schedules of the response whose id is the date
\* asked for (none when the body holds no per-date collection)
DaysOfDate ==
    {i \in DOMAIN fetched.body.classByDateList :
        fetched.body.classByDateList[i].id = date_str}
Answered200 ==
    /\ pc = "get_available_classes returned"
    /\ fetched.kind = "response"
    /\ fetched.status_code = 200
\* the body is JSON and holds every collection the client reads
WellFormed ==
    /\ fetched.body.parse = "ok"
    /\ fetched.body.has
    /\ \A i \in DOMAIN fetched.body.classByDateList :
          /\ fetched.body.classByDateList[i].has
          /\ \A k \in DOMAIN fetched.body.classByDateList[i].classByTimeList :
                fetched.body.classByDateList[i].classByTimeList[k].has

\* C14: for a 200 response get_available_classes returns None exactly when
\* no day schedule of the response has the date asked for as its id, and
\* otherwise a list, built from the first such day schedule.
C14_NoneIffDateMissing ==
    Answered200 =>
        /\ (available_classes.tag = "None") <=> (DaysOfDate = {})
        /\ DaysOfDate # {} =>
              /\ available_classes.tag = "list"
              /\ available_classes.val =
                    ConcatClasses(fetched.body.classByDateList[MinOf(DaysOfDate)].classByTimeList)

\* what C14 says, for the responses that hold every collection
C14_OnWellFormedBodies == (Answered200 /\ WellFormed) => C14_NoneIffDateMissing

\* C15: when the date asked for is found, get_available_classes returns the
\* class sequences of all the groups of that day one after the other, in
\* the order of the groups and then the order within each group.
C15_FlattensInOrder ==
    (Answered200 /\ fetched.body.parse = "ok" /\ DaysOfDate # {}) =>
        LET slots == fetched.body.classByDateList[MinOf(DaysOfDate)].classByTimeList
            positions == {<<k, n>> \in (DOMAIN slots) \X (1..MaxClasses + 1) :
                             n <= Len(slots[k].classes)}
            Before(a, b) == a[1] < b[1] \/ (a[1] = b[1] /\ a[2] < b[2])
            Rank(a) == 1 + Cardinality({b \in positions : Before(b, a)})
        IN  /\ available_classes.tag = "list"
            /\ Len(available_classes.val) = Cardinality(positions)
            /\ \A a \in positions : available_classes.val[Rank(a)] = slots[a[1]].classes[a[2]]

\* what C15 says, for the responses that hold every collection
C15_OnWellFormedBodies == (Answered200 /\ WellFormed) => C15_FlattensInOrder

\* C16: book_class returns true exactly when a response came back and its
\* status is 200; every other status and every network exception gives
\* false.
C16_TrueIff200 ==
    pc = "book_class returned"
        => /\ success \in BOOLEAN
           /\ success <=> (fetched.kind = "response" /\ fetched.status_code = 200)

C16_Witness ==
    /\ pc = "book_class returned"
    /\ fetched.status_code = 201
    /\ ~success

\* C17: when one of the three credentials is unset or empty, the run ends
\* at the failed initialization: no GET, no sleep, no POST, the clock where
\* it was.
C17_MissingCredentialEndsRun ==
    (/\ pc # "start"
     /\ \/ api_key \in {Unset, ""}
        \/ at_token \in {Unset, ""}
        \/ st_token \in {Unset, ""})
        => /\ pc = "done"
           /\ outcome = "init_failed"
           /\ log = <<>>
           /\ results = <<>>
           /\ now \in StartTimes

C17_Witness ==
    /\ pc = "done"
    /\ outcome = "init_failed"
    /\ api_key = "secret" /\ at_token = "secret" /\ st_token = ""

\* C18: the target date is the one worked out from the clock at the start
\* of the run, and every GET of the run asks for the same center and for
\* that date, however many sleeps have moved the clock since (past midnight
\* too).
C18_TargetDateFixed ==
    (pc # "start" /\ outcome # "init_failed")
        => /\ date_str = StrfDate(now - 180 * Count("sleep"), advance)
           /\ now - 180 * Count("sleep") \in StartTimes
           /\ \A i \in DOMAIN log :
                 log[i].ev = "GET" => (log[i].center = center_id /\ log[i].date = date_str)

C18_Witness ==
    /\ Count("GET") = 3
    /\ StrfDate(now, advance) # date_str
    /\ Last(log) = GetEvent(center_id, date_str)

\* the polls that came to None and were retried (offset 4; the one the loop
\* has not yet acted on does not count) and the bookings that failed
NoneRetried ==
    IF advance # 4 THEN 0
    ELSE Cardinality({i \in DOMAIN results : results[i] = "None"})
         - (IF pc = "branch" /\ results # <<>> /\ Last(results) = "None" THEN 1 ELSE 0)
FailedBookings == Cardinality({i \in DOMAIN results : results[i] = "fail"})

\* C19: between two GETs that follow each other there is exactly one sleep,
\* of 180 seconds; a run that has ended made no sleep after its last GET;
\* and the sleeps so far are as many as the None polls retried under offset
\* 4 plus the bookings that failed.
C19_SleepsBetweenFetches ==
    /\ \A i \in DOMAIN log : \A j \in DOMAIN log :
          (/\ i < j /\ log[i].ev = "GET" /\ log[j].ev = "GET"
           /\ \A k \in (i + 1)..(j - 1) : log[k].ev # "GET")
              => /\ Cardinality({k \in (i + 1)..(j - 1) : log[k].ev = "sleep"}) = 1
                 /\ log[j - 1] = SleepEvent(180)
    /\ ~Running =>
          \A k \in DOMAIN log :
              log[k].ev = "sleep" => \E g \in DOMAIN log : g > k /\ log[g].ev = "GET"
    /\ Count("sleep") = NoneRetried + FailedBookings

C19_Witness ==
    /\ ~Running
    /\ Count("GET") = 3
    /\ Count("sleep") = 2
    /\ NoneRetried = 1
    /\ FailedBookings = 1

\* C20: a matched record without an id is never booked: whenever the last
\* search returned such a record the run is over with the "no match"
\* outcome, the search being the last thing it did; and no POST is ever
\* made without an id.
C20_NoIdNoBooking ==
    /\ (target_class # None /\ target_class[1].id = Absent)
          => /\ pc = "done"
             /\ outcome = "no_match"
             /\ Last(log) = SearchEvent
             /\ Last(results) = "list"
    /\ \A i \in DOMAIN log : log[i].ev = "POST" => log[i].id # Absent

C20_Witness ==
    /\ pc = "done"
    /\ outcome = "no_match"
    /\ target_class # None
    /\ PassesAllFour(target_class[1])
    /\ target_class[1].id = Absent
    /\ Len(available_classes.val) = 2
    /\ PassesAllFour(available_classes.val[2])
    /\ available_classes.val[2].id # Absent
====
